---- MODULE Spec2Model ----
(***************************************************************************)
(* Model of Statistics.py (Excel-compatible statistics functions).         *)
(*                                                                         *)
(* The library is a flat set of pure functions.  Each function is an       *)
(* operator that yields an outcome: a number, or the exception the Python  *)
(* code raises.  Floating point numbers are modelled as exact reals:       *)
(* rationals <<n, d>> in lowest terms, and, for the results of math.sqrt,  *)
(* signed square roots of rationals.  The state machine is a caller that   *)
(* picks a function and its arguments, and records the outcome.            *)
(***************************************************************************)
EXTENDS Integers, Sequences, FiniteSets, TLC

\* ---- bounds of the inputs -------------------------------------------------
\* the longest sequence, the largest element and the largest total of a
\* sequence handed to a function
MaxLen == 3
MaxVal == 2
MaxSum == 3

\* ---- exceptions raised by the code, by the message they carry -------------
\* 'One or more data points must exist.' / 'Arguments cannot be empty.'
EmptyInputError == "EmptyInputError"
\* 'Arguments must have the same number of data points.'
LengthMismatchError == "LengthMismatchError"
\* 'Standard deviation of an argument cannot be zero.' /
\* 'The variance of known_x cannot equal zero.'
ZeroVarianceError == "ZeroVarianceError"
\* 'X must be a numeric value.'
NotANumberError == "NotANumberError"
\* raised by Python's float division when the divisor is zero
ZeroDivisionError == "ZeroDivisionError"
\* raised by math.sqrt on a negative argument
ValueError == "ValueError"

ErrorKinds == {EmptyInputError, LengthMismatchError, ZeroVarianceError,
               NotANumberError, ZeroDivisionError, ValueError}

\* ---- exact arithmetic -----------------------------------------------------
AbsInt(i) == IF i < 0 THEN -i ELSE i

RECURSIVE GCD(_, _)
GCD(a, b) == IF b = 0 THEN a ELSE GCD(b, a % b)

\* the rational n/d (d # 0) in lowest terms with a positive denominator
Rat(n, d) ==
    LET g == GCD(AbsInt(n), AbsInt(d))
        s == IF d < 0 THEN -1 ELSE 1
    IN  <<(s * n) \div g, (s * d) \div g>>

RInt(i) == <<i, 1>>
RAdd(p, q) == Rat(p[1] * q[2] + q[1] * p[2], p[2] * q[2])
RSub(p, q) == Rat(p[1] * q[2] - q[1] * p[2], p[2] * q[2])
RMul(p, q) == Rat(p[1] * q[1], p[2] * q[2])
RAbs(p) == <<AbsInt(p[1]), p[2]>>
RIsZero(p) == p[1] = 0
RSign(p) == IF p[1] > 0 THEN 1 ELSE IF p[1] < 0 THEN -1 ELSE 0

\* ---- outcomes -------------------------------------------------------------
\* a float that is the rational q
Num(q) == [kind |-> "Num", val |-> q]
\* a float that is s * sqrt(q), s in {-1, 0, 1}, q >= 0
Root(s, q) == [kind |-> "Root", val |-> <<s, q[1], q[2]>>]
\* a raised exception
Err(k) == [kind |-> k, val |-> <<>>]

IsErr(o) == o.kind \in ErrorKinds
IsNumeric(o) == o.kind \in {"Num", "Root"}

\* Python's "a / b" on floats: a zero divisor raises ZeroDivisionError
FloatDiv(p, q) ==
    IF RIsZero(q) THEN Err(ZeroDivisionError)
    ELSE Num(Rat(p[1] * q[2], p[2] * q[1]))

\* math.sqrt
Sqrt(q) ==
    IF q[1] < 0 THEN Err(ValueError)
    ELSE Root(RSign(q), q)

\* ---- the functions of Statistics.py ----------------------------------------
\* an exception raised by a callee propagates; otherwise the statements that
\* follow the call run with the value it returned
Then(o, F(_)) == IF IsErr(o) THEN o ELSE F(o.val)

RECURSIVE sum(_)
sum(data) == IF data = <<>> THEN 0 ELSE Head(data) + sum(Tail(data))

average(data) ==
    IF Len(data) = 0 THEN Err(EmptyInputError)
    ELSE FloatDiv(RInt(sum(data)), RInt(Len(data)))

\* the loop "for x in data: tot += abs(x - mu)"
RECURSIVE AbsDevLoop(_, _)
AbsDevLoop(data, mu) ==
    IF data = <<>> THEN RInt(0)
    ELSE RAdd(RAbs(RSub(RInt(Head(data)), mu)), AbsDevLoop(Tail(data), mu))

avgdev(data) ==
    IF Len(data) = 0 THEN Err(EmptyInputError)
    ELSE Then(average(data), LAMBDA mu :
         Then(FloatDiv(RInt(1), RInt(Len(data))), LAMBDA inv :
         Num(RMul(inv, AbsDevLoop(data, mu)))))

\* the loop "for x in data: tot += (x - mu) ** 2"
RECURSIVE SqDevLoop(_, _)
SqDevLoop(data, mu) ==
    IF data = <<>> THEN RInt(0)
    ELSE RAdd(RMul(RSub(RInt(Head(data)), mu), RSub(RInt(Head(data)), mu)),
              SqDevLoop(Tail(data), mu))

devsq(data) ==
    Then(average(data), LAMBDA mu : Num(SqDevLoop(data, mu)))

\* the loop "for (x, y) in zip(array1, array2): tot += (x - mu1) * (y - mu2)"
RECURSIVE ProdDevLoop(_, _, _, _)
ProdDevLoop(array1, array2, mu1, mu2) ==
    IF array1 = <<>> \/ array2 = <<>> THEN RInt(0)
    ELSE RAdd(RMul(RSub(RInt(Head(array1)), mu1),
                   RSub(RInt(Head(array2)), mu2)),
              ProdDevLoop(Tail(array1), Tail(array2), mu1, mu2))

\* variant: the length comparison made before the emptiness test
sumdev_LengthFirst(array1, array2) ==
    IF Len(array1) # Len(array2) THEN Err(LengthMismatchError)
    ELSE IF Len(array1) = 0 \/ Len(array2) = 0 THEN Err(EmptyInputError)
    ELSE Then(average(array1), LAMBDA mu1 :
         Then(average(array2), LAMBDA mu2 :
         Num(ProdDevLoop(array1, array2, mu1, mu2))))

\* variant: no length comparison, zip stops at the shorter sequence
sumdev_NoLengthCheck(array1, array2) ==
    IF Len(array1) = 0 \/ Len(array2) = 0 THEN Err(EmptyInputError)
    ELSE Then(average(array1), LAMBDA mu1 :
         Then(average(array2), LAMBDA mu2 :
         Num(ProdDevLoop(array1, array2, mu1, mu2))))

sumdev(array1, array2) ==
    IF Len(array1) = 0 \/ Len(array2) = 0 THEN Err(EmptyInputError)
    ELSE IF Len(array1) # Len(array2) THEN Err(LengthMismatchError)
    ELSE Then(average(array1), LAMBDA mu1 :
         Then(average(array2), LAMBDA mu2 :
         Num(ProdDevLoop(array1, array2, mu1, mu2))))

covar(array1, array2) ==
    IF Len(array1) = 0 \/ Len(array2) = 0 THEN Err(EmptyInputError)
    ELSE IF Len(array1) # Len(array2) THEN Err(LengthMismatchError)
    ELSE Then(sumdev(array1, array2), LAMBDA sd :
         FloatDiv(sd, RInt(Len(array1))))

\* variant: the sample and the population divisors exchanged
variance_DivisorsSwapped(data, is_sample) ==
    IF Len(data) = 0 THEN Err(EmptyInputError)
    ELSE Then(average(data), LAMBDA mu :
         Then(devsq(data), LAMBDA ds :
         IF is_sample THEN FloatDiv(ds, RInt(Len(data)))
         ELSE FloatDiv(ds, RInt(Len(data) - 1))))

variance(data, is_sample) ==
    IF Len(data) = 0 THEN Err(EmptyInputError)
    ELSE Then(average(data), LAMBDA mu :
         Then(devsq(data), LAMBDA ds :
         IF is_sample THEN FloatDiv(ds, RInt(Len(data) - 1))
         ELSE FloatDiv(ds, RInt(Len(data)))))

var(data) == variance(data, TRUE)

varp(data) == variance(data, FALSE)

standard_deviation(data, is_sample) ==
    IF is_sample THEN Then(var(data), Sqrt)
    ELSE Then(varp(data), Sqrt)

stdev(data) == standard_deviation(data, TRUE)

stdevp(data) == standard_deviation(data, FALSE)

\* the comparison "stdev == 0.0" of a root <<s, n, d>>
RootIsZero(r) == r[1] = 0

\* the quotient cv / (stdev1 * stdev2), cv a rational, stdev1 and stdev2
\* roots <<s, n, d>>
CorrelQuotient(cv, stdev1, stdev2) ==
    \* stdev1 * stdev2 = s1 * s2 * sqrt(q1 * q2)
    IF stdev1[1] * stdev2[1] = 0 THEN Err(ZeroDivisionError)
    \* cv / (s * sqrt(q)) = sign(cv) * s * sqrt(cv * cv / q)
    ELSE Then(FloatDiv(RMul(cv, cv),
                       RMul(<<stdev1[2], stdev1[3]>>, <<stdev2[2], stdev2[3]>>)),
              LAMBDA q : Root(RSign(cv) * stdev1[1] * stdev2[1], q))

\* variant: only the first standard deviation is tested for zero
correl_OneSidedGuard(array1, array2) ==
    IF Len(array1) = 0 \/ Len(array2) = 0 THEN Err(EmptyInputError)
    ELSE IF Len(array1) # Len(array2) THEN Err(LengthMismatchError)
    ELSE Then(stdevp(array1), LAMBDA stdev1 :
         Then(stdevp(array2), LAMBDA stdev2 :
         IF RootIsZero(stdev1) THEN Err(ZeroVarianceError)
         ELSE Then(covar(array1, array2), LAMBDA cv :
              CorrelQuotient(cv, stdev1, stdev2))))

\* variant: the standard deviation of array1 used for both arguments
correl_SameStdev(array1, array2) ==
    IF Len(array1) = 0 \/ Len(array2) = 0 THEN Err(EmptyInputError)
    ELSE IF Len(array1) # Len(array2) THEN Err(LengthMismatchError)
    ELSE Then(stdevp(array1), LAMBDA stdev1 :
         Then(stdevp(array2), LAMBDA stdev2 :
         IF RootIsZero(stdev1) \/ RootIsZero(stdev2) THEN Err(ZeroVarianceError)
         ELSE Then(covar(array1, array2), LAMBDA cv :
              CorrelQuotient(cv, stdev1, stdev1))))

correl(array1, array2) ==
    IF Len(array1) = 0 \/ Len(array2) = 0 THEN Err(EmptyInputError)
    ELSE IF Len(array1) # Len(array2) THEN Err(LengthMismatchError)
    ELSE Then(stdevp(array1), LAMBDA stdev1 :
         Then(stdevp(array2), LAMBDA stdev2 :
         IF RootIsZero(stdev1) \/ RootIsZero(stdev2) THEN Err(ZeroVarianceError)
         ELSE Then(covar(array1, array2), LAMBDA cv :
              CorrelQuotient(cv, stdev1, stdev2))))

pearson(array1, array2) == correl(array1, array2)

rsq(known_y, known_x) ==
    \* (s * sqrt(q)) ** 2 = s * s * q
    Then(correl(known_y, known_x), LAMBDA r :
    Num(RMul(RInt(r[1] * r[1]), <<r[2], r[3]>>)))

\* variant: a zero denominator guarded as correl and forecast guard theirs
slope_Guarded(known_y, known_x) ==
    Then(sumdev(known_x, known_y), LAMBDA sd :
    Then(devsq(known_x), LAMBDA ds :
    IF RIsZero(ds) THEN Err(ZeroVarianceError) ELSE FloatDiv(sd, ds)))

\* variant: the denominator taken from known_y
slope_DenominatorY(known_y, known_x) ==
    Then(sumdev(known_x, known_y), LAMBDA sd :
    Then(devsq(known_y), LAMBDA ds :
    FloatDiv(sd, ds)))

slope(known_y, known_x) ==
    Then(sumdev(known_x, known_y), LAMBDA sd :
    Then(devsq(known_x), LAMBDA ds :
    FloatDiv(sd, ds)))

\* variant: slope called with its arguments exchanged
intercept_SwappedArgs(known_y, known_x) ==
    Then(average(known_y), LAMBDA muy :
    Then(average(known_x), LAMBDA mux :
    Then(slope(known_x, known_y), LAMBDA b :
    Num(RSub(muy, RMul(b, mux))))))

intercept(known_y, known_x) ==
    Then(average(known_y), LAMBDA muy :
    Then(average(known_x), LAMBDA mux :
    Then(slope(known_y, known_x), LAMBDA b :
    Num(RSub(muy, RMul(b, mux))))))

\* the scalar argument of forecast is any Python object, a record of its
\* type and, for a number, its value
NumericTypes == {"int"}
OtherTypes == {"str"}
\* hasattr(x, '__int__')
isnumber(x) == x.type \in NumericTypes

\* variant: no test of the variance of known_x
forecast_NoVarianceGuard(x, known_y, known_x) ==
    IF isnumber(x) = FALSE THEN Err(NotANumberError)
    ELSE Then(varp(known_x), LAMBDA varx :
         Then(slope(known_y, known_x), LAMBDA b :
         Then(intercept(known_y, known_x), LAMBDA a :
         Num(RAdd(a, RMul(b, RInt(x.val)))))))

\* variant: x tested only where it is used, after the regression
forecast_LateNumberCheck(x, known_y, known_x) ==
    Then(varp(known_x), LAMBDA varx :
    IF RIsZero(varx) THEN Err(ZeroVarianceError)
    ELSE Then(slope(known_y, known_x), LAMBDA b :
         Then(intercept(known_y, known_x), LAMBDA a :
         IF isnumber(x) = FALSE THEN Err(NotANumberError)
         ELSE Num(RAdd(a, RMul(b, RInt(x.val)))))))

forecast(x, known_y, known_x) ==
    IF isnumber(x) = FALSE THEN Err(NotANumberError)
    ELSE Then(varp(known_x), LAMBDA varx :
         IF RIsZero(varx) THEN Err(ZeroVarianceError)
         ELSE Then(slope(known_y, known_x), LAMBDA b :
              Then(intercept(known_y, known_x), LAMBDA a :
              Num(RAdd(a, RMul(b, RInt(x.val)))))))

\* ---- the caller -----------------------------------------------------------
\* the arguments the caller draws: sequences of at most MaxLen integers of
\* 0..MaxVal whose total is at most MaxSum, and scalars of either kind
Vals == 0..MaxVal
Seqs == {s \in UNION {[1..k -> Vals] : k \in 0..MaxLen} : sum(s) <= MaxSum}
Scalars == [type : NumericTypes, val : Vals] \cup [type : OtherTypes, val : {0}]
NoScalar == [type |-> "int", val |-> 0]

VARIABLES pc, fn, x, arg1, arg2, is_sample, result

vars == <<pc, fn, x, arg1, arg2, is_sample, result>>

NoResult == [kind |-> "None", val |-> <<>>]

Init ==
    /\ pc = "idle"
    /\ fn = "none"
    /\ x = NoScalar
    /\ arg1 = <<>>
    /\ arg2 = <<>>
    /\ is_sample = FALSE
    /\ result = NoResult

\* a call of a function of one sequence
Call1(name, data, out) ==
    /\ pc' = "done"
    /\ fn' = name
    /\ arg1' = data
    /\ arg2' = <<>>
    /\ x' = NoScalar
    /\ result' = out

\* a call of a function of two sequences
Call2(name, a1, a2, out) ==
    /\ pc' = "done"
    /\ fn' = name
    /\ arg1' = a1
    /\ arg2' = a2
    /\ x' = NoScalar
    /\ is_sample' = FALSE
    /\ result' = out

CallAverage ==
    /\ pc = "idle"
    /\ \E d \in Seqs : Call1("average", d, average(d)) /\ is_sample' = FALSE
CallAvgdev ==
    /\ pc = "idle"
    /\ \E d \in Seqs : Call1("avgdev", d, avgdev(d)) /\ is_sample' = FALSE
CallDevsq ==
    /\ pc = "idle"
    /\ \E d \in Seqs : Call1("devsq", d, devsq(d)) /\ is_sample' = FALSE
CallVar ==
    /\ pc = "idle"
    /\ \E d \in Seqs : Call1("var", d, var(d)) /\ is_sample' = TRUE
CallVarp ==
    /\ pc = "idle"
    /\ \E d \in Seqs : Call1("varp", d, varp(d)) /\ is_sample' = FALSE
CallVariance ==
    /\ pc = "idle"
    /\ \E d \in Seqs, s \in BOOLEAN :
        Call1("variance", d, variance(d, s)) /\ is_sample' = s
CallStdev ==
    /\ pc = "idle"
    /\ \E d \in Seqs : Call1("stdev", d, stdev(d)) /\ is_sample' = TRUE
CallStdevp ==
    /\ pc = "idle"
    /\ \E d \in Seqs : Call1("stdevp", d, stdevp(d)) /\ is_sample' = FALSE
CallStandardDeviation ==
    /\ pc = "idle"
    /\ \E d \in Seqs, s \in BOOLEAN :
        Call1("standard_deviation", d, standard_deviation(d, s)) /\ is_sample' = s
CallSumdev ==
    /\ pc = "idle"
    /\ \E a, b \in Seqs : Call2("sumdev", a, b, sumdev(a, b))
CallCovar ==
    /\ pc = "idle"
    /\ \E a, b \in Seqs : Call2("covar", a, b, covar(a, b))
CallCorrel ==
    /\ pc = "idle"
    /\ \E a, b \in Seqs : Call2("correl", a, b, correl(a, b))
CallPearson ==
    /\ pc = "idle"
    /\ \E a, b \in Seqs : Call2("pearson", a, b, pearson(a, b))
CallRsq ==
    /\ pc = "idle"
    /\ \E a, b \in Seqs : Call2("rsq", a, b, rsq(a, b))
CallSlope ==
    /\ pc = "idle"
    /\ \E a, b \in Seqs : Call2("slope", a, b, slope(a, b))
CallIntercept ==
    /\ pc = "idle"
    /\ \E a, b \in Seqs : Call2("intercept", a, b, intercept(a, b))
CallForecast ==
    /\ pc = "idle"
    /\ \E s \in Scalars, a, b \in Seqs :
        /\ pc' = "done"
        /\ fn' = "forecast"
        /\ x' = s
        /\ arg1' = a
        /\ arg2' = b
        /\ is_sample' = FALSE
        /\ result' = forecast(s, a, b)

\* the caller has taken the outcome; nothing of the call is retained
Return ==
    /\ pc = "done"
    /\ pc' = "idle"
    /\ fn' = "none"
    /\ x' = NoScalar
    /\ arg1' = <<>>
    /\ arg2' = <<>>
    /\ is_sample' = FALSE
    /\ result' = NoResult

Next ==
    \/ CallAverage
    \/ CallAvgdev
    \/ CallDevsq
    \/ CallVar
    \/ CallVarp
    \/ CallVariance
    \/ CallStdev
    \/ CallStdevp
    \/ CallStandardDeviation
    \/ CallSumdev
    \/ CallCovar
    \/ CallCorrel
    \/ CallPearson
    \/ CallRsq
    \/ CallSlope
    \/ CallIntercept
    \/ CallForecast
    \/ Return

Spec == Init /\ [][Next]_vars

TypeOK ==
    /\ pc \in {"idle", "done"}
    /\ result.kind \in ErrorKinds \cup {"Num", "Root", "None"}
    /\ pc = "done" <=> result # NoResult
\* ---- properties -----------------------------------------------------------
IsConstant(data) == \A i, j \in DOMAIN data : data[i] = data[j]

RECURSIVE SumSquares(_)
SumSquares(data) ==
    IF data = <<>> THEN 0
    ELSE Head(data) * Head(data) + SumSquares(Tail(data))

\* n * (sum of squares) - (sum) ^ 2, which is n times the sum of the squared
\* deviations from the mean
NDevSq(data) == Len(data) * SumSquares(data) - sum(data) * sum(data)

OneSeqFns == {"average", "avgdev", "devsq", "variance", "var", "varp",
              "standard_deviation", "stdev", "stdevp"}
TwoSeqFns == {"sumdev", "covar", "correl", "pearson", "rsq", "slope",
              "intercept", "forecast"}

Called(name) == pc = "done" /\ fn = name

\* some sequence argument of the call is empty
SomeArgEmpty ==
    \/ fn \in OneSeqFns /\ arg1 = <<>>
    \/ fn \in TwoSeqFns /\ (arg1 = <<>> \/ arg2 = <<>>)

\* the call is one the claims on sequences speak of: forecast only with a
\* numeric x
SeqCall ==
    /\ pc = "done"
    /\ fn \in OneSeqFns \cup TwoSeqFns
    /\ fn = "forecast" => isnumber(x)

\* forecast called with an empty known_y and a non-empty constant known_x
ForecastEmptyYConstantX ==
    /\ fn = "forecast"
    /\ arg1 = <<>>
    /\ arg2 # <<>>
    /\ IsConstant(arg2)

\* C1 as stated: every function that takes sequences, called with at least
\* one empty sequence argument (forecast with a numeric x), yields
\* EmptyInputError whatever the other argument holds.
C1_EmptyAlwaysEmptyInputError ==
    (SeqCall /\ SomeArgEmpty) => result = Err(EmptyInputError)

\* C1 amended: every function that takes sequences, called with at least one
\* empty sequence argument, yields EmptyInputError, except forecast with an
\* empty known_y and a non-empty constant known_x, which yields
\* ZeroVarianceError.
C1_EmptyInput ==
    (SeqCall /\ SomeArgEmpty) =>
        IF ForecastEmptyYConstantX
        THEN result = Err(ZeroVarianceError)
        ELSE result = Err(EmptyInputError)

C1_Witness ==
    /\ Called("forecast")
    /\ isnumber(x)
    /\ arg1 = <<>>
    /\ Len(arg2) = 2
    /\ ~IsConstant(arg2)
    /\ result = Err(EmptyInputError)

\* C2: sumdev, covar, correl and slope, called with two non-empty sequences
\* of different lengths, yield LengthMismatchError whatever the values are.
C2_LengthMismatch ==
    ( /\ pc = "done"
      /\ fn \in {"sumdev", "covar", "correl", "slope"}
      /\ arg1 # <<>>
      /\ arg2 # <<>>
      /\ Len(arg1) # Len(arg2) ) => result = Err(LengthMismatchError)

C2_Witness ==
    /\ Called("slope")
    /\ Len(arg1) = 2
    /\ Len(arg2) = 1
    /\ result = Err(LengthMismatchError)

\* C3: forecast with a numeric x and a non-empty constant known_x yields
\* ZeroVarianceError whatever known_y is, and no call of forecast ends in
\* the division by zero of slope.
C3_ForecastZeroVariance ==
    (Called("forecast") /\ isnumber(x)) =>
        /\ result.kind # ZeroDivisionError
        /\ (arg2 # <<>> /\ IsConstant(arg2)) => result = Err(ZeroVarianceError)

C3_Witness ==
    /\ Called("forecast")
    /\ isnumber(x)
    /\ Len(arg1) = 2
    /\ ~IsConstant(arg1)
    /\ Len(arg2) = 2
    /\ IsConstant(arg2)
    /\ result = Err(ZeroVarianceError)

\* the calls whose denominator is zero and not guarded: slope with
\* equal-length non-empty arguments and a constant known_x, and the sample
\* variance of a single element
UnguardedZeroDenominator ==
    \/ /\ Called("slope")
       /\ arg1 # <<>>
       /\ Len(arg1) = Len(arg2)
       /\ IsConstant(arg2)
    \/ /\ pc = "done"
       /\ fn \in {"variance", "var"}
       /\ is_sample
       /\ Len(arg1) = 1

\* C4 as stated: the unguarded zero denominators return a numeric
\* (infinite or NaN) result, not an error.
C4_ZeroDenominatorIsNumeric ==
    UnguardedZeroDenominator => ~IsErr(result)

\* C4 amended: the unguarded zero denominators fail with the
\* ZeroDivisionError of the float division, an error outside the four
\* kinds the functions raise themselves.
C4_ZeroDenominatorRaises ==
    UnguardedZeroDenominator => result = Err(ZeroDivisionError)

C4_Witness ==
    /\ Called("slope")
    /\ Len(arg1) = 2
    /\ ~IsConstant(arg1)
    /\ Len(arg2) = 2
    /\ IsConstant(arg2)
    /\ result = Err(ZeroDivisionError)

\* C5: correl and pearson, called with equal-length non-empty sequences,
\* yield ZeroVarianceError if one of them is constant and a number
\* otherwise; they never divide by zero.
C5_CorrelZeroVariance ==
    ( /\ pc = "done"
      /\ fn \in {"correl", "pearson"}
      /\ arg1 # <<>>
      /\ Len(arg1) = Len(arg2) ) =>
        IF IsConstant(arg1) \/ IsConstant(arg2)
        THEN result = Err(ZeroVarianceError)
        ELSE IsNumeric(result)

C5_Witness ==
    /\ Called("correl")
    /\ Len(arg1) = 2
    /\ ~IsConstant(arg1)
    /\ Len(arg2) = 2
    /\ IsConstant(arg2)
    /\ result = Err(ZeroVarianceError)

\* the data a regression line is asked of: two sequences of equal length,
\* at least 2, known_x not constant
Regressable(known_y, known_x) ==
    /\ Len(known_y) = Len(known_x)
    /\ Len(known_x) >= 2
    /\ ~IsConstant(known_x)

\* known_y[i] = a + b * known_x[i] for every i
OnLine(a, b, known_y, known_x) ==
    \A i \in DOMAIN known_x : known_y[i] = a + b * known_x[i]

\* the integer slopes of the lines through points of Vals x Vals; the
\* intercept of such a line through (known_x[1], known_y[1]) is
\* known_y[1] - b * known_x[1]
Slopes == (-MaxVal)..MaxVal

\* C6: for data exactly on the line y = a + b * x, with integer a and b and a
\* known_x of length >= 2 that is not constant, slope returns b, intercept
\* returns a and forecast returns a + b * x.
C6_ExactLine ==
    ( /\ pc = "done"
      /\ fn \in {"slope", "intercept", "forecast"}
      /\ Regressable(arg1, arg2) ) =>
        \A b \in Slopes :
            LET a == arg1[1] - b * arg2[1]
            IN  OnLine(a, b, arg1, arg2) =>
                    /\ fn = "slope" => result = Num(RInt(b))
                    /\ fn = "intercept" => result = Num(RInt(a))
                    /\ (fn = "forecast" /\ isnumber(x)) =>
                           result = Num(RInt(a + b * x.val))

C6_Witness ==
    /\ Called("forecast")
    /\ x = [type |-> "int", val |-> 1]
    /\ arg1 = <<2, 1, 0>>
    /\ arg2 = <<0, 1, 2>>
    /\ OnLine(2, -1, arg1, arg2)
    /\ result = Num(RInt(1))

\* C7: correl(a, b) and correl(b, a) have the same outcome, the same number
\* or the same error, and so have sumdev(a, b) and sumdev(b, a).
C7_CorrelSymmetric ==
    /\ Called("correl") => result = correl(arg2, arg1)
    /\ Called("sumdev") => result = sumdev(arg2, arg1)

C7_Witness ==
    /\ Called("correl")
    /\ Len(arg1) = 3
    /\ varp(arg1) # varp(arg2)
    /\ IsNumeric(result)
    /\ result.val[1] = -1

\* C8: intercept fails exactly when slope fails, with the same error, and
\* otherwise returns mean(known_y) - slope(known_y, known_x) * mean(known_x).
C8_InterceptAsSlope ==
    Called("intercept") =>
        LET b == slope(arg1, arg2)
        IN  /\ IsErr(result) <=> IsErr(b)
            /\ IsErr(b) => result = b
            /\ ~IsErr(b) =>
                   result = Num(RSub(Rat(sum(arg1), Len(arg1)),
                                     RMul(b.val, Rat(sum(arg2), Len(arg2)))))

C8_Witness ==
    /\ Called("intercept")
    /\ Len(arg1) = 2
    /\ ~IsConstant(arg1)
    /\ IsConstant(arg2)
    /\ result = Err(ZeroDivisionError)

\* C9: for n >= 1 the population variance is the sum of the squared
\* deviations from the mean divided by n, and for n >= 2 the sample variance
\* is that sum divided by n - 1; so (n - 1) * var = n * varp = devsq, and
\* devsq >= 0.
C9_Variance ==
    LET n == Len(arg1)
    IN  (pc = "done" /\ n >= 1) =>
            /\ (fn \in {"variance", "varp"} /\ ~is_sample) =>
                   /\ result = Num(Rat(NDevSq(arg1), n * n))
                   /\ RMul(RInt(n), result.val) = devsq(arg1).val
            /\ (fn \in {"variance", "var"} /\ is_sample /\ n >= 2) =>
                   /\ result = Num(Rat(NDevSq(arg1), n * (n - 1)))
                   /\ RMul(RInt(n - 1), result.val) = devsq(arg1).val
                   /\ RMul(RInt(n - 1), result.val)
                          = RMul(RInt(n), varp(arg1).val)
            /\ fn = "devsq" =>
                   /\ result = Num(Rat(NDevSq(arg1), n))
                   /\ result.val[1] >= 0

C9_Witness ==
    /\ Called("variance")
    /\ is_sample
    /\ arg1 = <<0, 1, 2>>
    /\ result = Num(<<1, 1>>)

\* C10: forecast with a non-numeric x yields NotANumberError whatever
\* known_y and known_x are.
C10_NotANumberFirst ==
    (Called("forecast") /\ ~isnumber(x)) => result = Err(NotANumberError)

C10_Witness ==
    /\ Called("forecast")
    /\ ~isnumber(x)
    /\ arg1 = <<>>
    /\ Len(arg2) = 2
    /\ IsConstant(arg2)
    /\ result = Err(NotANumberError)
====
